---- MODULE Spec2Model ----
(***************************************************************************)
(* The burger_shop ink! contract (src/lib.rs): pricing of an order, the    *)
(* payable message take_order_and_payment, and the two queries             *)
(* get_single_order and get_orders, over the contract storage              *)
(* (orders, orders_mapping).                                               *)
(*                                                                         *)
(* One action is one message of the contract, run to completion: the host  *)
(* serialises messages.  A panic (a failed assert!, expect or an           *)
(* arithmetic overflow under overflow checks) traps the message: the host  *)
(* reverts it, so it leaves the storage as it was and emits nothing.       *)
(*                                                                         *)
(* Numbers.  Balance is u128 and ids are u32 in the source; TLC computes   *)
(* with integers below 2^31, so both widths and the scaling factor of the  *)
(* payment are scaled down together: Balance is BalanceBits wide, the u32  *)
(* of an id or a length is U32Bits wide, and the factor 10^12 is Multiply. *)
(* Arithmetic keeps the width: it wraps, or panics when the build checks   *)
(* overflows.                                                              *)
(***************************************************************************)
EXTENDS Integers, Sequences, FiniteSets, TLC

VARIABLES orders, orders_mapping, call, ret, local_id, transfers, events, returned, overflow_checks

vars == <<orders, orders_mapping, call, ret, local_id, transfers, events, returned, overflow_checks>>

(***************************************************************************)
(* Bounds of the model.                                                    *)
(***************************************************************************)
\* the ledger holds at most MaxOrders orders
MaxOrders == 2
\* the longest item list, and the largest quantity, of the pricing runs
MaxItems == 2
MaxAmount == 2
\* the scaled width of Balance (u128 in the source)
BalanceBits == 16
\* the scaled width of u32
U32Bits == 3

BalanceModulus == 2 ^ BalanceBits

U32Modulus == 2 ^ U32Bits

(***************************************************************************)
(* Program constants.                                                      *)
(***************************************************************************)
\* let multiply: Balance = 1_000_000_000_000, scaled with the width
Multiply == 1000

\* the account of the contract itself, self.env().account_id()
ContractAccount == "shop"

\* the accounts that call the contract
Accounts == {"shop", "alice", "bob"}

(***************************************************************************)
(* Menu and pricing.                                                       *)
(***************************************************************************)
BurgerMenu == {"CheeseBurger", "ChickenBurger", "VeggieBurger"}

\* BurgerMenu_price, the prices of the veggie and the chicken burger exchanged
BurgerMenu_price_exchanged(burger) ==
    CASE burger = "CheeseBurger" -> 12
      [] burger = "VeggieBurger" -> 15
      [] burger = "ChickenBurger" -> 10

BurgerMenu_price(burger) ==
    CASE burger = "CheeseBurger" -> 12
      [] burger = "VeggieBurger" -> 10
      [] burger = "ChickenBurger" -> 15

FoodItem(burger, amount) == [burger_menu |-> burger, amount |-> amount]

\* what an arithmetic operation yields when it panics: no Balance value
ArithPanic == BalanceModulus

\* a * b on Balance: in range, or a panic (overflow checks) or the wrapped value
BalanceMul(a, b) ==
    IF a * b < BalanceModulus THEN a * b
    ELSE IF overflow_checks THEN ArithPanic
    ELSE (a * b) % BalanceModulus

\* a + b on Balance, likewise
BalanceAdd(a, b) ==
    IF a + b < BalanceModulus THEN a + b
    ELSE IF overflow_checks THEN ArithPanic
    ELSE (a + b) % BalanceModulus

\* Balance::checked_mul: the product, or None (no Balance value either)
None == BalanceModulus + 1

checked_mul(a, b) == IF a * b < BalanceModulus THEN a * b ELSE None

\* AsU32, the count taken from 1
AsU32_from_one(n) == (n + 1) % U32Modulus

\* n as u32
AsU32(n) == n % U32Modulus

FoodItem_price(item) ==
    CASE item.burger_menu = "CheeseBurger" ->
            BalanceMul(BurgerMenu_price("CheeseBurger"), item.amount)
      [] item.burger_menu = "ChickenBurger" ->
            BalanceMul(BurgerMenu_price("ChickenBurger"), item.amount)
      [] item.burger_menu = "VeggieBurger" ->
            BalanceMul(BurgerMenu_price("VeggieBurger"), item.amount)

\* the loop of Order::total_price from item i on, with the running total
RECURSIVE TotalFrom(_, _, _)
TotalFrom(list_of_items, i, total) ==
    IF i > Len(list_of_items) THEN total
    ELSE LET price == FoodItem_price(list_of_items[i]) IN
         IF price = ArithPanic THEN ArithPanic
         ELSE LET sum == BalanceAdd(total, price) IN
              IF sum = ArithPanic THEN ArithPanic
              ELSE TotalFrom(list_of_items, i + 1, sum)

Order_total_price(list_of_items) == TotalFrom(list_of_items, 1, 0)

Order_new(list_of_items, customer, id) ==
    [list_of_items |-> list_of_items,
     customer |-> customer,
     total_price |-> Order_total_price(list_of_items),
     paid |-> FALSE,
     order_id |-> id]

(***************************************************************************)
(* Storage primitives and results.                                         *)
(***************************************************************************)
\* Mapping::new()
Mapping_new == <<>>

\* Mapping_insert, the value dropped
Mapping_insert_dropped(mapping, key, value) == mapping

\* Mapping::insert: the value under key is set, a value already there replaced
Mapping_insert(mapping, key, value) ==
    [k \in (DOMAIN mapping) \cup {key} |-> IF k = key THEN value ELSE mapping[k]]

\* Mapping_get, the lookup answering with the lowest key stored
Mapping_get_lowest(mapping, key) ==
    IF key \in DOMAIN mapping
    THEN <<mapping[CHOOSE k \in DOMAIN mapping : \A j \in DOMAIN mapping : k <= j]>>
    ELSE <<>>

\* Mapping::get: <<value>> for Some(value), <<>> for None
Mapping_get(mapping, key) ==
    IF key \in DOMAIN mapping THEN <<mapping[key]>> ELSE <<>>

\* Vec_push, the entry put at the front
Vec_push_front(vec, entry) == <<entry>> \o vec

\* Vec_push, the entry pushed twice
Vec_push_twice(vec, entry) == Append(Append(vec, entry), entry)

\* Vec::push
Vec_push(vec, entry) == Append(vec, entry)

Ok(order) == [kind |-> "Ok", order |-> order]

Err(error) == [kind |-> "Err", error |-> error]

\* a trapped message, with the message of the panic and the values formatted
\* into it
Panic(msg, args) == [kind |-> "Panic", msg |-> msg, args |-> args]

\* no value of the local id: the message ended before line 179
NoId == U32Modulus

TransferEvent(from, to, value) ==
    [event |-> "Transfer", from |-> from, to |-> to, value |-> value]

(***************************************************************************)
(* take_order_and_payment, lines 165-239.  Each operator below yields the  *)
(* storage, result and effects the message ends with.                      *)
(***************************************************************************)
\* the message trapped: storage as it was, nothing emitted
Trapped(msg, args, id) ==
    [orders |-> orders, orders_mapping |-> orders_mapping, ret |-> Panic(msg, args),
     local_id |-> id, transfers |-> <<>>, events |-> <<>>]

\* IsCustomer, the assert left out
IsCustomer_unchecked(caller) == TRUE

\* assert!(caller != self.env().account_id())
IsCustomer(caller) == caller # ContractAccount

\* HasItems, the assert left out
HasItems_unchecked(list_of_items) == TRUE

\* assert!(list_of_items.len() as u32 > 0)
HasItems(list_of_items) == AsU32(Len(list_of_items)) > 0

\* assert!(order.paid == false)
NotPaid(order) == order.paid = FALSE

\* PaidInFull, an overpayment accepted
PaidAtLeast(transferred_val, expected) == transferred_val >= expected

\* assert!(transferred_val == order.total_price.checked_mul(multiply).expect(..))
PaidInFull(transferred_val, expected) == transferred_val = expected

\* MarkPaid, the flag left as it was
MarkPaid_not(order) == order

\* order.paid = true
MarkPaid(order) == [order EXCEPT !.paid = TRUE]

\* self.env().transfer(self.env().account_id(), order.total_price)
TransferCall(order, result) ==
    [to |-> ContractAccount, value |-> order.total_price, result |-> result]

\* TransferSucceeded, the transfer called again after the ledger is written
TransferSucceeded_twice(order0, id0) ==
    LET id == AsU32(Len(orders))
        order == MarkPaid(order0)
    IN  [orders |-> Vec_push(orders, <<id, order>>),
         orders_mapping |-> Mapping_insert(orders_mapping, id, order),
         ret |-> Ok(order),
         local_id |-> id0,
         transfers |-> <<TransferCall(order0, "Ok"), TransferCall(order0, "Ok")>>,
         events |-> <<TransferEvent(order.customer, ContractAccount, order.total_price)>>]

\* the Ok(_) arm of the match: lines 220-236
TransferSucceeded(order0, id0) ==
    LET id == AsU32(Len(orders))
        order == MarkPaid(order0)
    IN  [orders |-> Vec_push(orders, <<id, order>>),
         orders_mapping |-> Mapping_insert(orders_mapping, id, order),
         ret |-> Ok(order),
         local_id |-> id0,
         transfers |-> <<TransferCall(order0, "Ok")>>,
         events |-> <<TransferEvent(order.customer, ContractAccount, order.total_price)>>]

\* the Err(_) arm: line 237
TransferFailed(order0, id0) ==
    [orders |-> orders, orders_mapping |-> orders_mapping,
     ret |-> Err("PaymentError"),
     local_id |-> id0,
     transfers |-> <<TransferCall(order0, "Err")>>, events |-> <<>>]

\* Settle, the order committed whatever the transfer answered
Settle_unconditional(order, id, transfer_result) ==
    [TransferSucceeded(order, id) EXCEPT
        !.transfers = <<TransferCall(order, transfer_result)>>]

\* match self.env().transfer(..): lines 216-238
Settle(order, id, transfer_result) ==
    IF transfer_result = "Ok" THEN TransferSucceeded(order, id)
    ELSE TransferFailed(order, id)

\* lines 181-238, after the two asserts on the request and with the local id
PriceAndSettle(caller, list_of_items, transferred_val, transfer_result, id) ==
    LET total_price == Order_total_price(list_of_items)
        order0 == Order_new(list_of_items, caller, id)
        order == [order0 EXCEPT !.total_price = total_price]
        expected == checked_mul(order.total_price, Multiply)
    IN  IF total_price = ArithPanic \/ order0.total_price = ArithPanic
        THEN Trapped("attempt to add or multiply with overflow", <<>>, id)
        ELSE IF ~NotPaid(order)
        THEN Trapped("Can't pay for an order that is paid for already", <<>>, id)
        ELSE IF expected = None
        THEN Trapped("Overflow!!!", <<>>, id)
        ELSE IF ~PaidInFull(transferred_val, expected)
        THEN Trapped("Please pay complete amount which is {}", <<order.total_price>>, id)
        ELSE Settle(order, id, transfer_result)

take_order_and_payment(caller, list_of_items, transferred_val, transfer_result) ==
    IF ~IsCustomer(caller)
    THEN Trapped("You are not the customer!", <<>>, NoId)
    ELSE IF ~HasItems(list_of_items)
    THEN Trapped("Can't take an empty order!", <<>>, NoId)
    ELSE PriceAndSettle(caller, list_of_items, transferred_val, transfer_result,
                        AsU32(Len(orders)))

(***************************************************************************)
(* The queries, lines 241-275.                                             *)
(***************************************************************************)
GetSingleOrderEvent(order) == [event |-> "GetSingleOrder", single_order |-> order]

GetAllOrdersEvent(all) == [event |-> "GetAllOrders", orders |-> all]

\* a query that returned value
Return(value) == [kind |-> "Return", value |-> value]

\* the Option a query returned: Some(value), or the None of get_orders
Some(value) == [kind |-> "Some", value |-> value]

NoOrders == [kind |-> "None"]

\* get_single_order, the event emitted before the lookup is unwrapped
get_single_order_emits_first(id) ==
    LET found == Mapping_get(orders_mapping, id) IN
    IF found = <<>>
    THEN [ret |-> Panic("Order not found", <<>>),
          events |-> <<GetSingleOrderEvent(found)>>]
    ELSE [ret |-> Return(found[1]), events |-> <<GetSingleOrderEvent(found[1])>>]

\* self.orders_mapping.get(id).expect("Order not found"), then the event
get_single_order(id) ==
    LET found == Mapping_get(orders_mapping, id) IN
    IF found = <<>>
    THEN [ret |-> Panic("Order not found", <<>>), events |-> <<>>]
    ELSE [ret |-> Return(found[1]), events |-> <<GetSingleOrderEvent(found[1])>>]

\* get_orders, Some(..) returned for the empty log too
get_orders_always_some ==
    [ret |-> Some(orders), events |-> <<GetAllOrdersEvent(orders)>>]

get_orders ==
    IF Len(orders) > 0
    THEN [ret |-> Some(orders), events |-> <<GetAllOrdersEvent(orders)>>]
    ELSE [ret |-> NoOrders, events |-> <<>>]

(***************************************************************************)
(* The messages as actions.  call is the message and its inputs, ret what  *)
(* it returned, transfers and events what it did to the host, local_id the *)
(* id of line 179, returned the orders take_order_and_payment has returned *)
(* so far.                                                                 *)
(***************************************************************************)
\* the host answers the transfer when the message calls it: transfer_result is
\* drawn for the messages that do, and is "Ok" where none is made
TakeOrderAndPayment(caller, list_of_items, transferred_val, transfer_result) ==
    LET out == take_order_and_payment(caller, list_of_items, transferred_val,
                                      transfer_result)
    IN  /\ transfer_result = "Ok" \/ out.transfers # <<>>
        /\ orders' = out.orders
        /\ orders_mapping' = out.orders_mapping
        /\ ret' = out.ret
        /\ local_id' = out.local_id
        /\ transfers' = out.transfers
        /\ events' = out.events
        /\ call' = [op |-> "take_order_and_payment", caller |-> caller,
                    list_of_items |-> list_of_items,
                    transferred_value |-> transferred_val]
        /\ returned' = IF out.ret.kind = "Ok" THEN Append(returned, out.ret.order)
                       ELSE returned
        /\ UNCHANGED overflow_checks

GetSingleOrder(id) ==
    LET out == get_single_order(id)
    IN  /\ ret' = out.ret
        /\ events' = out.events
        /\ call' = [op |-> "get_single_order", id |-> id]
        /\ local_id' = NoId
        /\ transfers' = <<>>
        /\ UNCHANGED <<orders, orders_mapping, returned, overflow_checks>>

GetOrders ==
    LET out == get_orders
    IN  /\ ret' = out.ret
        /\ events' = out.events
        /\ call' = [op |-> "get_orders"]
        /\ local_id' = NoId
        /\ transfers' = <<>>
        /\ UNCHANGED <<orders, orders_mapping, returned, overflow_checks>>

(***************************************************************************)
(* The inputs of the runs.                                                 *)
(***************************************************************************)
\* the price list of the shop: the unit price of each kind
UnitPrice ==
    [burger \in BurgerMenu |->
        IF burger = "CheeseBurger" THEN 12
        ELSE IF burger = "VeggieBurger" THEN 10
        ELSE 15]

\* the sum the price list gives a list: unit price times quantity, item by item
RECURSIVE ItemsTotal(_)
ItemsTotal(list_of_items) ==
    IF list_of_items = <<>> THEN 0
    ELSE UnitPrice[Head(list_of_items).burger_menu] * Head(list_of_items).amount
         + ItemsTotal(Tail(list_of_items))

\* the payments attached to a request for a list: the exact amount, one unit
\* of the payment system or one unit of price below and above it
Payments(list_of_items) ==
    LET exact == ItemsTotal(list_of_items) * Multiply
    IN  {v \in {exact - Multiply, exact - 1, exact, exact + 1, exact + Multiply} :
            v >= 0 /\ v < BalanceModulus}

TransferResults == {"Ok", "Err"}

\* the item lists customers of the shop send
SampleLists ==
    { <<>>,
      <<FoodItem("CheeseBurger", 2), FoodItem("VeggieBurger", 1)>>,
      <<FoodItem("ChickenBurger", 1)>>,
      <<FoodItem("VeggieBurger", 0)>> }

\* every item list of at most MaxItems items with quantities up to MaxAmount
FoodItems == [burger_menu : BurgerMenu, amount : 0..MaxAmount]

AllLists == UNION {[1..n -> FoodItems] : n \in 0..MaxItems}

\* the ids a query asks for
QueryIds == 0..MaxOrders

(***************************************************************************)
(* The contract: new() and then any messages.                              *)
(***************************************************************************)
Init ==
    /\ orders = <<>>
    /\ orders_mapping = Mapping_new
    /\ call = [op |-> "new"]
    /\ ret = [kind |-> "Constructed"]
    /\ local_id = NoId
    /\ transfers = <<>>
    /\ events = <<>>
    /\ returned = <<>>
    /\ overflow_checks \in BOOLEAN

Next ==
    \/ \E caller \in Accounts, list_of_items \in SampleLists :
         \E transferred_val \in Payments(list_of_items), result \in TransferResults :
            /\ TakeOrderAndPayment(caller, list_of_items, transferred_val, result)
            /\ Len(orders') <= MaxOrders
    \/ \E id \in QueryIds : GetSingleOrder(id)
    \/ GetOrders

Spec == Init /\ [][Next]_vars

(***************************************************************************)
(* Pricing: Order::new on any list, and the first order of the shop on any *)
(* list.                                                                   *)
(***************************************************************************)
NewOrder(list_of_items, customer, id) ==
    /\ call.op = "new"
    /\ call' = [op |-> "Order::new", list_of_items |-> list_of_items,
                customer |-> customer, id |-> id]
    /\ ret' = Return(Order_new(list_of_items, customer, id))
    /\ UNCHANGED <<orders, orders_mapping, local_id, transfers, events, returned,
                   overflow_checks>>

FirstOrder(caller, list_of_items, transferred_val, transfer_result) ==
    /\ call.op = "new"
    /\ TakeOrderAndPayment(caller, list_of_items, transferred_val, transfer_result)

NextPricing ==
    \/ \E list_of_items \in AllLists : NewOrder(list_of_items, "alice", 0)
    \/ \E list_of_items \in AllLists :
         \E transferred_val \in Payments(list_of_items), result \in TransferResults :
            FirstOrder("alice", list_of_items, transferred_val, result)

SpecPricing == Init /\ [][NextPricing]_vars

(***************************************************************************)
(* Properties of take_order_and_payment.                                   *)
(***************************************************************************)
IsTake(c) == c.op = "take_order_and_payment"

\* the payment attached to c is exactly the total of its list, in the unit of
\* the payment system
PaysExactly(c) == c.transferred_value = ItemsTotal(c.list_of_items) * Multiply

\* the message made a transfer and the host refused it
TransferRefused(made) == \E i \in DOMAIN made : made[i].result = "Err"

LedgerUnchanged == orders' = orders /\ orders_mapping' = orders_mapping

\* C1: a call by a caller other than the contract, with a non-empty list, a
\* payment of exactly total_price * Multiply and no refused transfer adds exactly
\* one entry to the ledger (in both views), paid, under the id that is the size
\* of the ledger before the call, and returns it.
C1_PaidOrderIsCommitted ==
    [][(/\ IsTake(call')
        /\ call'.caller # ContractAccount
        /\ call'.list_of_items # <<>>
        /\ PaysExactly(call')
        /\ ~TransferRefused(transfers'))
       => /\ Len(orders') = Len(orders) + 1
          /\ SubSeq(orders', 1, Len(orders)) = orders
          /\ orders'[Len(orders')][1] = Len(orders)
          /\ orders'[Len(orders')][2].paid = TRUE
          /\ orders'[Len(orders')][2].order_id = Len(orders)
          /\ DOMAIN orders_mapping' = (DOMAIN orders_mapping) \cup {Len(orders)}
          /\ \A k \in DOMAIN orders_mapping : orders_mapping'[k] = orders_mapping[k]
          /\ orders_mapping'[Len(orders)] = orders'[Len(orders')][2]
          /\ ret' = Ok(orders'[Len(orders')][2])]_vars

\* a second order was just committed, under id 1
C1_Witness ==
    /\ IsTake(call) /\ call.caller # ContractAccount /\ PaysExactly(call)
    /\ ret.kind = "Ok"
    /\ Len(orders) = 2
    /\ orders[2] = <<1, ret.order>>
    /\ ret.order.paid

\* C2: when the transfer is refused the call returns PaymentError and leaves
\* both views of the ledger as they were; the same request sent again right
\* after, and paid, gets the id the refused attempt had computed.
C2_RefusedTransferCommitsNothing ==
    [][/\ (IsTake(call') /\ TransferRefused(transfers'))
          => (ret' = Err("PaymentError") /\ LedgerUnchanged)
       /\ (/\ IsTake(call) /\ ret = Err("PaymentError")
           /\ call' = call /\ ret'.kind = "Ok")
          => /\ ret'.order.order_id = local_id
             /\ orders'[Len(orders')][1] = local_id]_vars

\* a transfer was refused with an order already in the ledger
C2_Witness ==
    /\ IsTake(call)
    /\ TransferRefused(transfers)
    /\ ret = Err("PaymentError")
    /\ local_id = 1
    /\ Len(orders) = 1 /\ DOMAIN orders_mapping = {0}

\* C3: a call with a non-empty list and a payment other than total_price *
\* Multiply, above or below, is rejected, makes no transfer and leaves both
\* views of the ledger as they were.
C3_WrongPaymentIsRejected ==
    [][(IsTake(call') /\ call'.list_of_items # <<>> /\ ~PaysExactly(call'))
       => /\ ret'.kind = "Panic"
          /\ transfers' = <<>>
          /\ events' = <<>>
          /\ LedgerUnchanged]_vars

\* an overpayment by a customer was rejected for the amount, with an order
\* already in the ledger
C3_Witness ==
    /\ IsTake(call) /\ call.caller # ContractAccount
    /\ call.list_of_items # <<>>
    /\ call.transferred_value > ItemsTotal(call.list_of_items) * Multiply
    /\ ret = Panic("Please pay complete amount which is {}",
                   <<ItemsTotal(call.list_of_items)>>)
    /\ Len(orders) = 1

\* C4: a call with an empty list is rejected as an invalid request whatever
\* the payment and the caller, makes no transfer and leaves both views of the
\* ledger as they were.
C4_EmptyOrderIsRejected ==
    [][(IsTake(call') /\ call'.list_of_items = <<>>)
       => /\ ret'.kind = "Panic"
          /\ ret'.msg \in {"Can't take an empty order!", "You are not the customer!"}
          /\ transfers' = <<>>
          /\ events' = <<>>
          /\ LedgerUnchanged]_vars

\* a customer sent an empty list with the payment of its total, 0, and was
\* rejected for the empty list, with an order already in the ledger
C4_Witness ==
    /\ IsTake(call) /\ call.caller # ContractAccount
    /\ call.list_of_items = <<>>
    /\ PaysExactly(call)
    /\ ret = Panic("Can't take an empty order!", <<>>)
    /\ Len(orders) = 1

\* the customer of every entry of both views is an account other than the
\* contract's
NoOrderOfTheContract ==
    /\ \A i \in DOMAIN orders : orders[i][2].customer # ContractAccount
    /\ \A k \in DOMAIN orders_mapping : orders_mapping[k].customer # ContractAccount

\* C5: a call whose caller is the contract itself is rejected, makes no
\* transfer and leaves both views of the ledger as they were; no entry of the
\* ledger has the contract as customer.  (One customer may commit several
\* orders: the witness.)
C5_ContractIsNoCustomer ==
    /\ []NoOrderOfTheContract
    /\ [][(IsTake(call') /\ call'.caller = ContractAccount)
          => /\ ret' = Panic("You are not the customer!", <<>>)
             /\ transfers' = <<>>
             /\ events' = <<>>
             /\ LedgerUnchanged]_vars

\* the contract, paying exactly for a non-empty list, was rejected, and the
\* ledger holds two orders of one customer
C5_Witness ==
    /\ IsTake(call) /\ call.caller = ContractAccount
    /\ call.list_of_items # <<>> /\ PaysExactly(call)
    /\ ret = Panic("You are not the customer!", <<>>)
    /\ Len(orders) = 2
    /\ orders[1][2].customer = orders[2][2].customer
    /\ orders[1][2].list_of_items # orders[2][2].list_of_items

(***************************************************************************)
(* Invariants of the ledger.                                               *)
(***************************************************************************)
\* the ids of the append log
LogIds == {orders[i][1] : i \in DOMAIN orders}

\* C6: the append log and the lookup index hold the same ids, and under each
\* id the same Order.
C6_ViewsAgree ==
    /\ LogIds = DOMAIN orders_mapping
    /\ \A i \in DOMAIN orders : orders_mapping[orders[i][1]] = orders[i][2]

\* two orders are in the ledger and the last message failed
C6_Witness ==
    /\ Len(orders) = 2
    /\ DOMAIN orders_mapping = {0, 1}
    /\ orders_mapping[0] # orders_mapping[1]
    /\ ret.kind \in {"Panic", "Err"}

\* C7: the k-th entry of the append log, counted from 0, has key k and an
\* Order whose order_id is k: the ids are pairwise distinct and contiguous
\* from 0.
C7_IdsAreContiguous ==
    /\ \A i \in DOMAIN orders :
          orders[i][1] = i - 1 /\ orders[i][2].order_id = i - 1
    /\ \A i, j \in DOMAIN orders : orders[i][1] = orders[j][1] => i = j

\* two orders are in the ledger, the second committed by a retry of a request
\* whose transfer is now refused
C7_Witness ==
    /\ Len(orders) = 2
    /\ orders[2][1] = 1 /\ orders[2][2].order_id = 1
    /\ IsTake(call) /\ ret = Err("PaymentError")
    /\ call.list_of_items = orders[2][2].list_of_items

\* C8: every Order of either view is paid; the Order a call returns is paid
\* and is the one stored, and a call that does not return one stores nothing.
C8_StoredOrdersArePaid ==
    /\ \A i \in DOMAIN orders : orders[i][2].paid = TRUE
    /\ \A k \in DOMAIN orders_mapping : orders_mapping[k].paid = TRUE
    /\ \A i \in DOMAIN returned : returned[i].paid = TRUE
    /\ Len(returned) = Len(orders)

\* an order was just committed after another one, and is paid in both views
C8_Witness ==
    /\ IsTake(call) /\ ret.kind = "Ok"
    /\ Len(orders) = 2
    /\ orders[2][2].paid /\ orders_mapping[1].paid

(***************************************************************************)
(* Pricing, under SpecPricing.                                             *)
(***************************************************************************)
\* the total of the list and its payment are values of Balance
InRange(list_of_items) == ItemsTotal(list_of_items) * Multiply < BalanceModulus

\* C9: for a non-empty list with in-range values the total_price of the order,
\* and of the entry committed for it, is the sum of unit price times quantity
\* over its items, at 12 for a CheeseBurger, 10 for a VeggieBurger and 15 for a
\* ChickenBurger; the payment of exactly that total times Multiply is accepted
\* and any other payment is rejected.
C9_TotalIsSumOfLinePrices ==
    /\ BurgerMenu_price("CheeseBurger") = 12
    /\ BurgerMenu_price("VeggieBurger") = 10
    /\ BurgerMenu_price("ChickenBurger") = 15
    /\ (call.op = "Order::new" /\ call.list_of_items # <<>>
            /\ InRange(call.list_of_items))
       => ret.value.total_price = ItemsTotal(call.list_of_items)
    /\ (IsTake(call) /\ call.list_of_items # <<>> /\ InRange(call.list_of_items))
       => /\ (PaysExactly(call) /\ ~TransferRefused(transfers))
             => /\ ret.kind = "Ok"
                /\ ret.order.total_price = ItemsTotal(call.list_of_items)
                /\ orders[Len(orders)][2].total_price = ItemsTotal(call.list_of_items)
                /\ orders_mapping[ret.order.order_id].total_price
                      = ItemsTotal(call.list_of_items)
          /\ ~PaysExactly(call) => (ret.kind = "Panic" /\ orders = <<>>)

\* 2 CheeseBurgers and 1 VeggieBurger, paid with 34 times Multiply, were
\* committed at a total_price of 34
C9_Witness ==
    /\ IsTake(call)
    /\ call.list_of_items
         = <<FoodItem("CheeseBurger", 2), FoodItem("VeggieBurger", 1)>>
    /\ call.transferred_value = 34 * Multiply
    /\ ret.kind = "Ok"
    /\ ret.order.total_price = 34
    /\ orders[1][2].total_price = 34

(***************************************************************************)
(* The queries.                                                            *)
(***************************************************************************)
\* the orders take_order_and_payment has returned under id
ReturnedUnder(id) == {returned[i] : i \in {j \in DOMAIN returned : returned[j].order_id = id}}

\* C10: get_single_order(id) returns, field by field, the Order that the
\* successful take_order_and_payment returned under that id, and fails with
\* "Order not found" for an id no successful call has returned.
C10_LookupReturnsTheCommittedOrder ==
    call.op = "get_single_order"
    => IF ReturnedUnder(call.id) = {}
       THEN ret = Panic("Order not found", <<>>)
       ELSE /\ ret.kind = "Return"
            /\ ReturnedUnder(call.id) = {ret.value}
            /\ \E o \in ReturnedUnder(call.id) :
                  /\ ret.value.list_of_items = o.list_of_items
                  /\ ret.value.customer = o.customer
                  /\ ret.value.total_price = o.total_price
                  /\ ret.value.paid = o.paid
                  /\ ret.value.order_id = o.order_id

\* the second of two different committed orders was looked up and returned
C10_Witness ==
    /\ call.op = "get_single_order" /\ call.id = 1
    /\ Len(returned) = 2
    /\ returned[1].list_of_items # returned[2].list_of_items
    /\ returned[1].customer # returned[2].customer
    /\ ret = Return(returned[2])

\* C11: get_orders returns None exactly when the ledger is empty, whatever
\* calls were rejected before; after N commits it returns the N entries
\* (id, Order) of the committed orders, in the order of their commits.
C11_ListIsTheCommitsInOrder ==
    call.op = "get_orders"
    => /\ (ret = NoOrders) <=> (orders = <<>>)
       /\ (ret = NoOrders) <=> (returned = <<>>)
       /\ ret # NoOrders
          => /\ ret.kind = "Some"
             /\ Len(ret.value) = Len(returned)
             /\ \A i \in DOMAIN returned :
                   ret.value[i] = <<returned[i].order_id, returned[i]>>

\* the list of two different committed orders was returned
C11_Witness ==
    /\ call.op = "get_orders"
    /\ Len(returned) = 2
    /\ returned[1].list_of_items # returned[2].list_of_items
    /\ ret = Some(<<(<<0, returned[1]>>), (<<1, returned[2]>>)>>)

(***************************************************************************)
(* How the messages fail.                                                  *)
(***************************************************************************)
\* C12: every message ends by returning a value to its caller, an error being
\* a typed value of the result: no message ends in a panic.
C12_ErrorsAreReturnedValues ==
    ret.kind \in {"Constructed", "Ok", "Err", "Return", "Some", "None"}

(***************************************************************************)
(* Pricing at the end of the range of Balance: Order::new and the first    *)
(* order of the shop on lists whose line price, running sum or payment is  *)
(* no value of Balance.  Only Balance is scaled here: a quantity is any    *)
(* number, as a u32 is against the 16 bits of the scaled Balance.          *)
(***************************************************************************)
\* the quantity of a kind whose line price is the last in range
LastInRange(burger) == (BalanceModulus - 1) \div UnitPrice[burger]

\* a list whose one line price leaves the range, a list whose running sum
\* leaves it at the second item, lists whose total is in range and its
\* payment not, and a list in range
RangeLists ==
    { <<FoodItem("ChickenBurger", LastInRange("ChickenBurger") + 1)>>,
      <<FoodItem("CheeseBurger", LastInRange("CheeseBurger")),
        FoodItem("VeggieBurger", 1)>>,
      <<FoodItem("ChickenBurger", 5)>>,
      <<FoodItem("CheeseBurger", 7), FoodItem("ChickenBurger", 7)>>,
      <<FoodItem("ChickenBurger", 1)>> }

\* the payments attached to them: the payment of the total reduced to the
\* width of Balance, one unit more, and the ends of the range
RangePayments(list_of_items) ==
    LET reduced == (ItemsTotal(list_of_items) % BalanceModulus) * Multiply
    IN  {v \in {0, reduced, reduced + 1, BalanceModulus - 1} : v < BalanceModulus}

NextOverflow ==
    \/ \E list_of_items \in RangeLists : NewOrder(list_of_items, "alice", 0)
    \/ \E caller \in Accounts, list_of_items \in RangeLists :
         \E transferred_val \in RangePayments(list_of_items),
            result \in TransferResults :
            FirstOrder(caller, list_of_items, transferred_val, result)

SpecOverflow == Init /\ [][NextOverflow]_vars

\* a line price, a partial sum or the payment of the list is no value of
\* Balance (each is at most the payment of the total)
ExceedsRange(list_of_items) ==
    \/ \E i \in DOMAIN list_of_items :
          UnitPrice[list_of_items[i].burger_menu] * list_of_items[i].amount
            >= BalanceModulus
    \/ \E n \in DOMAIN list_of_items :
          ItemsTotal(SubSeq(list_of_items, 1, n)) >= BalanceModulus
    \/ ItemsTotal(list_of_items) * Multiply >= BalanceModulus

C14_CommittedQuantitiesArePositive ==
    \A i \in DOMAIN orders :
       \A k \in DOMAIN orders[i][2].list_of_items :
          orders[i][2].list_of_items[k].amount > 0

\* C15: within one take_order_and_payment the transfer is called at most
\* once, and only for a customer's non-empty order paid exactly; a ledger view
\* is written only in a message whose one transfer call answered Ok, and the
\* message that was answered Err or made no call writes none.
C15_TransferGatesTheLedger ==
    [][IsTake(call')
       => /\ Len(transfers') <= 1
          /\ transfers' # <<>>
             => /\ call'.caller # ContractAccount
                /\ call'.list_of_items # <<>>
                /\ PaysExactly(call')
          /\ ~LedgerUnchanged
             => /\ Len(transfers') = 1
                /\ transfers'[1].result = "Ok"
          /\ (transfers' = <<>> \/ TransferRefused(transfers'))
             => LedgerUnchanged]_vars

\* a second order committed by a message that called the transfer once, after
\* the three checks, and was answered Ok
C15_Witness ==
    /\ IsTake(call)
    /\ call.caller # ContractAccount /\ call.list_of_items # <<>> /\ PaysExactly(call)
    /\ Len(transfers) = 1 /\ transfers[1].result = "Ok"
    /\ Len(orders) = 2 /\ orders[2][2] = ret.order

\* C16: the transfer of a verified request is called with the order's total
\* price as amount and with a destination that is not the contract's own
\* account, so that the amount leaves the balance the contract holds.
C16_TransferLeavesTheContract ==
    (IsTake(call) /\ transfers # <<>>)
    => /\ transfers[1].value = ItemsTotal(call.list_of_items)
       /\ transfers[1].to # ContractAccount

\* C17: the ledger is append-only.  Every step leaves each entry of the log
\* at its place and each entry of the index under its id, equal in every
\* field, and the log is as it was or one entry longer at its end; the order
\* count stays below the width of the ids.
C17_LedgerIsAppendOnly ==
    [][/\ Len(orders') \in {Len(orders), Len(orders) + 1}
       /\ SubSeq(orders', 1, Len(orders)) = orders
       /\ \A id \in DOMAIN orders_mapping :
             /\ id \in DOMAIN orders_mapping'
             /\ orders_mapping'[id] = orders_mapping[id]
       /\ Cardinality(DOMAIN orders_mapping') - Cardinality(DOMAIN orders_mapping)
             = Len(orders') - Len(orders)]_vars

\* a second order has been appended behind the first, which differs from it
C17_Witness ==
    /\ IsTake(call) /\ ret.kind = "Ok"
    /\ Len(orders) = 2
    /\ orders[1][2].customer # orders[2][2].customer
    /\ orders_mapping[0] = orders[1][2]
    /\ orders_mapping[1] = orders[2][2]

\* C18: a query leaves both views of the ledger as they were and calls no
\* transfer, whatever it finds.  get_single_order emits one GetSingleOrder
\* record of the order when the id is stored and nothing when it is not;
\* get_orders emits one GetAllOrders record of the log when the log has
\* entries and nothing when it is empty.
C18_QueriesOnlyEmit ==
    [][/\ call'.op \in {"get_single_order", "get_orders"}
          => LedgerUnchanged /\ transfers' = <<>> /\ returned' = returned
       /\ call'.op = "get_single_order"
          => events' = IF call'.id \in DOMAIN orders_mapping
                       THEN <<GetSingleOrderEvent(orders_mapping[call'.id])>>
                       ELSE <<>>
       /\ call'.op = "get_orders"
          => events' = IF orders # <<>> THEN <<GetAllOrdersEvent(orders)>>
                       ELSE <<>>]_vars

\* the second of two stored orders has been looked up, and its record emitted
C18_Witness ==
    /\ call.op = "get_single_order" /\ call.id = 1
    /\ Len(orders) = 2
    /\ events = <<GetSingleOrderEvent(orders[2][2])>>
    /\ ret = Return(orders_mapping[1])

(***************************************************************************)
(* The ledger past the width of the ids: orders of one item, paid exactly, *)
(* until the order count is one more than the ids there are.               *)
(***************************************************************************)
\* the order count at which `self.orders.len() as u32` has come round to 0
WrapOrders == U32Modulus + 1

Customers == Accounts \ {ContractAccount}

NextWrap ==
    \/ \E caller \in Customers, burger \in {"ChickenBurger"}, result \in TransferResults :
          /\ TakeOrderAndPayment(caller, <<FoodItem(burger, 1)>>,
                                 checked_mul(BurgerMenu_price(burger), Multiply),
                                 result)
          /\ Len(orders') <= WrapOrders
    \/ \E id \in {0} : GetSingleOrder(id)

SpecWrap == Init /\ [][NextWrap]_vars

\* C19: the ledger insert never overwrites.  A take_order_and_payment whose
\* id, the order count reduced to the width of the ids, is already a key of
\* the index fails: it returns no order and leaves both views as they were.
C19_InsertNeverOverwrites ==
    [][(IsTake(call') /\ AsU32(Len(orders)) \in DOMAIN orders_mapping)
       => /\ ret'.kind # "Ok"
          /\ LedgerUnchanged]_vars

====
